---- MODULE Spec2Model ----
(***************************************************************************)
(* DeepGuardX backend: the upload / scan / summarize / ask handlers and    *)
(* the per-session storage they share (uploads/<sessionId>/...).           *)
(*                                                                         *)
(* Every handler is an async function; it runs without interruption up to  *)
(* its await (the scanner process, the HTTP call to the AI service) and    *)
(* then again from the await to its response.  Each such stretch is one    *)
(* action; requests interleave only at the awaits.                         *)
(***************************************************************************)
EXTENDS Integers, Sequences, FiniteSets, TLC

\* ------------------------------------------------------------------ bounds
\* Number of requests served in one behaviour.
MaxRequests == 3

\* Highest risk level of a scan report (the rejected one).
MaxRisk == 3

\* ------------------------------------------------------------ input values
\* Two request handlers can be in flight at once.
Slots == {1, 2}

\* Identifiers the uuid4 middleware can produce.
ValidIds == {"s1"}
\* A caller-supplied identifier that is no uuid (a path-traversal shape).
InvalidIds == {"../x"}
Ids == ValidIds \cup InvalidIds
\* req.body.sessionId / req.params.sessionId absent.
NoId == "undefined"

\* A file path names doc.pdf in a session folder (uploads/<id>/doc.pdf) or
\* outside uploads ("ext"), or an existing directory, or is absent.
ExtLoc == "ext"
FileLocs == ValidIds \cup {ExtLoc}
DirPath == "."
NoPath == "undefined-path"
Paths == FileLocs \cup {DirPath}

Questions == {"q1", "q2"}
NoQuestion == "undefined-question"

RiskLevels == 0..MaxRisk

NoReport == [exists |-> FALSE, risk_level |-> 0]
Report(k) == [exists |-> TRUE, risk_level |-> k]

NoSummary == "none"
SummaryText == "summary-text"
PartialText == "partial"

\* ------------------------------------------------------------------- state
VARIABLES
    folder,     \* folder[id]: the directory uploads/<id> exists
    upFile,     \* upFile[loc]: the file doc.pdf exists at loc
    rep,        \* rep[loc]: <loc>/doc.pdf.report.json
    summary,    \* summary[id]: uploads/<id>/summary.txt
    chat,       \* chat[id]: uploads/<id>/chat.json
    req,        \* req[r]: the request a slot is serving and where it is
    started     \* requests started so far

vars == <<folder, upFile, rep, summary, chat, req, started>>
fsVars == <<folder, upFile, rep, summary, chat>>

\* ------------------------------------------------------ conversation log
\* type ChatMessage
UserTurn(q) == [role |-> "user", content |-> q]
AssistantTurn(answer, sources) ==
    [role |-> "assistant", content |-> answer, sources |-> sources]

Undefined == "undefined-value"

\* JSON.stringify of one object: members whose value is undefined are left out.
JSONObject(t) == [k \in {f \in DOMAIN t : t[f] # Undefined} |-> t[k]]

\* JSON.stringify(messages, null, 2): the text of chat.json.
JSONStringify(messages) ==
    [isArray |-> TRUE,
     items |-> [i \in 1..Len(messages) |-> JSONObject(messages[i])]]

\* JSON.parse of the text of chat.json.
JSONParse(text) == [isArray |-> text.isArray, items |-> text.items]

NoChat == [exists |-> FALSE, text |-> JSONStringify(<<>>)]
ChatFile(messages) == [exists |-> TRUE, text |-> JSONStringify(messages)]

\* askQuestion without the load of chat.json: every ask starts a new log.
LoadNothing(file) == <<>>

\* askQuestion: let messages = []; if chat.json exists, parse it.
LoadMessages(file) ==
    IF file.exists
    THEN LET raw == JSONParse(file.text)
         IN IF raw.isArray THEN raw.items ELSE <<>>
    ELSE <<>>

\* The answers of the question-answering service: a plain string, or an
\* object with an answer and optional sources.
Cite == [source |-> "doc.pdf", page |-> 1]
AiReplies ==
    { [isString |-> TRUE,  answer |-> "a1", sources |-> Undefined],
      [isString |-> FALSE, answer |-> "a1", sources |-> Undefined],
      [isString |-> FALSE, answer |-> "a2", sources |-> <<Cite>>] }

\* answer = typeof aiData === "string" ? aiData : aiData.answer
AnswerOf(aiData) == aiData.answer
\* sources = aiData?.sources, without the default for an answer that has none.
SourcesOrUndefined(aiData) ==
    IF aiData.isString THEN Undefined ELSE aiData.sources

\* sources = aiData?.sources ?? []
SourcesOf(aiData) ==
    IF aiData.isString \/ aiData.sources = Undefined THEN <<>> ELSE aiData.sources

\* ---------------------------------------------------------------- requests
\* A request: where its handler is (pc), its arguments, the answer it sent,
\* and the error its catch block caught while it waited (error).
Idle == [pc |-> "idle", kind |-> "none", sid |-> NoId, loc |-> NoPath,
         q |-> NoQuestion, messages |-> <<>>,
         status |-> 0, message |-> "", report |-> NoReport,
         summary |-> NoSummary, error |-> "none"]

\* res.status(code).json(...): the request is answered.
Respond(kind, sid, code, message, report, sum, messages) ==
    [Idle EXCEPT !.pc = "done", !.kind = kind, !.sid = sid, !.status = code,
                 !.message = message, !.report = report, !.summary = sum,
                 !.messages = messages]

\* The error middleware: status err.statusCode || 500, the error's message.
RespondError(kind, sid, code, message) ==
    Respond(kind, sid, code, message, NoReport, NoSummary, <<>>)

\* The answer of a catch block, with the error it caught.
Caught(answer, error) == [answer EXCEPT !.error = error]

\* A new request is served in the first slot that serves none.
Serving(r) == req[r].pc \notin {"idle", "done"}
Free(r) ==
    /\ started < MaxRequests
    /\ ~Serving(r)
    /\ \A o \in Slots : o < r => Serving(o)

Init ==
    /\ folder = [id \in Ids |-> FALSE]
    /\ upFile = [l \in FileLocs |-> l = ExtLoc]
    /\ rep = [l \in Ids \cup {ExtLoc} |-> NoReport]
    /\ summary = [id \in Ids |-> NoSummary]
    /\ chat = [id \in Ids |-> NoChat]
    /\ req = [r \in Slots |-> Idle]
    /\ started = 0

\* A request waiting at an await.
Waiting(pc, kind, sid, loc, q, messages, report) ==
    [Idle EXCEPT !.pc = pc, !.kind = kind, !.sid = sid, !.loc = loc, !.q = q,
                 !.messages = messages, !.report = report]

\* fs.existsSync(filePath)
PathExists(loc) == IF loc \in FileLocs THEN upFile[loc] ELSE loc = DirPath
\* fs.lstatSync(filePath).isDirectory()
IsDirectory(loc) == loc = DirPath

\* ------------------------------------------------------ AiService.summarize
\* summarize up to its await: the checks, the mkdir, the POST.  Gives the
\* request's next record; the folder is created when the record waits.
SummarizeBegin(kind, sid, loc, report) ==
    IF sid = NoId \/ loc = NoPath
    THEN RespondError(kind, sid, 400, "Missing Session Id or filePath")
    ELSE IF ~PathExists(loc)
    THEN RespondError(kind, sid, 404, "File not found")
    ELSE IF IsDirectory(loc)
    THEN RespondError(kind, sid, 400, "Expected a file but got a directory")
    ELSE Waiting("sum_wait", kind, sid, loc, NoQuestion, <<>>, report)

\* summarize without its mkdirSync: the folder is left as it is.
MkdirSkipped(next) == folder

\* The mkdirSync of a handler that reached its await on session sid.
MkdirFor(next) ==
    IF next.pc = "done" THEN folder ELSE [folder EXCEPT ![next.sid] = TRUE]

\* The outcomes of axios.post, and of fs.writeFileSync after a 2xx answer.
HttpFailures == {"timeout", "refused", "rejected", "other"}
WriteOutcomes == {"written", "openFailed", "writeFailed"}
UpstreamStatus == 422

\* The catch block of summarize: the AppError of a failure.
SummarizeError(kind, sid, failure) ==
    IF failure = "timeout"
    THEN RespondError(kind, sid, 504, "AI service took too long to respond")
    ELSE IF failure = "rejected"
    THEN RespondError(kind, sid, UpstreamStatus, "detail")
    ELSE IF failure = "refused"
    THEN RespondError(kind, sid, 503, "AI service unavailable")
    ELSE RespondError(kind, sid, 503, "AI service error")

\* fs.writeFileSync(summaryPath, summary): it opens the file with flag "w"
\* (which truncates it) and then writes; it can fail before or after the open.
WriteSummary(old, outcome) ==
    IF outcome = "written" THEN SummaryText
    ELSE IF outcome = "writeFailed" THEN PartialText
    ELSE old

\* aiSummarizeHandler: POST /Ai/... {sessionId, filePath}
SummarizeStart(r) ==
    /\ Free(r)
    /\ \E sid \in Ids \cup {NoId}, loc \in Paths \cup {NoPath} :
         LET next == SummarizeBegin("summarize", sid, loc, NoReport)
         IN /\ req' = [req EXCEPT ![r] = next]
            /\ folder' = MkdirFor(next)
    /\ started' = started + 1
    /\ UNCHANGED <<upFile, rep, summary, chat>>

\* summarize from its await on: the answer of the summarization service.
SummarizeReturn(r) ==
    /\ req[r].pc = "sum_wait"
    /\ LET kind == req[r].kind
           sid == req[r].sid
       IN \/ \E w \in WriteOutcomes :
               /\ summary' = [summary EXCEPT ![sid] = WriteSummary(@, w)]
               /\ req' = [req EXCEPT ![r] =
                    IF w = "written"
                    THEN Respond(kind, sid, 200, "success", req[r].report,
                                 SummaryText, <<>>)
                    ELSE Caught(SummarizeError(kind, sid, "other"), w)]
          \/ \E f \in HttpFailures :
               /\ req' = [req EXCEPT ![r] =
                    Caught(SummarizeError(kind, sid, f), f)]
               /\ UNCHANGED summary
    /\ UNCHANGED <<folder, upFile, rep, chat, started>>

\* ------------------------------------------------------- CyberService.scan
\* The policy with the boundary off by one: report.risk_level >= 2.
RejectedFromTwo(report) == report.risk_level >= MaxRisk - 1

\* The policy of the coordinator: report.risk_level == 3.
Rejected(report) == report.risk_level = MaxRisk

\* scan up to execFile: the mkdir, the two path calls, the launch.
ScanBegin(kind, sid, loc) ==
    IF sid = NoId \/ loc = NoPath
    THEN RespondError(kind, sid, 500, "TypeError")
    ELSE Waiting("scan_wait", kind, sid, loc, NoQuestion, <<>>, NoReport)

\* scan creates the folder before path.resolve(filePath) can throw.
MkdirForScan(sid) ==
    IF sid = NoId THEN folder ELSE [folder EXCEPT ![sid] = TRUE]

\* CyberService.scanFile: POST /cyber/... {sessionId, filePath}
ScanFileStart(r) ==
    /\ Free(r)
    /\ \E sid \in Ids \cup {NoId}, loc \in Paths \cup {NoPath} :
         /\ req' = [req EXCEPT ![r] = ScanBegin("scan", sid, loc)]
         /\ folder' = MkdirForScan(sid)
    /\ started' = started + 1
    /\ UNCHANGED <<upFile, rep, summary, chat>>

\* gate.py: the scanner process ends.  It fails, or ends with exit code 0
\* having written <file>.report.json beside the file, or without a report.
ScannerOutcomes ==
    {[exitOk |-> FALSE, report |-> NoReport], [exitOk |-> TRUE, report |-> NoReport]}
        \cup {[exitOk |-> TRUE, report |-> Report(k)] : k \in RiskLevels}
\* The report files after the scanner ran on the file at loc.
ScannerReports(loc, outcome) ==
    IF outcome.report.exists THEN [rep EXCEPT ![loc] = outcome.report] ELSE rep
\* The scanner reports on a file it can read.
ScannerCanEnd(loc, outcome) ==
    outcome.report.exists => (loc \in FileLocs /\ upFile[loc])

\* fs.existsSync(reportFile), reportFile = pdfFullPath + ".report.json"
ReportFileExists(files, loc) == loc \in FileLocs /\ files[loc].exists

\* fs.renameSync(reportFile, path.join(sessionFolder, basename(reportFile)))
RenameReport(files, loc, sid) ==
    IF loc = sid THEN files
    ELSE [files EXCEPT ![loc] = NoReport, ![sid] = files[loc]]

\* A caller of scan that swallows the rejection and goes on to summarize.
ScanRejectionIgnored(kind, sid, message) ==
    Waiting("sum_wait", kind, sid, NoPath, NoQuestion, <<>>, NoReport)

\* reject(error) in scan: scanFile answers 500 with the message; in upload the
\* catch block hands the error, which has no statusCode, to the error
\* middleware.
ScanRejects(kind, sid, message) == RespondError(kind, sid, 500, message)

\* The scanner process ends and the callback of execFile runs; then what the
\* caller of scan does with the outcome: scanFile answers; upload rejects the
\* file or goes on to summarize.
ScanCallback(r) ==
    /\ req[r].pc = "scan_wait"
    /\ \E outcome \in ScannerOutcomes :
         LET kind == req[r].kind
             sid == req[r].sid
             loc == req[r].loc
             files == ScannerReports(loc, outcome)
         IN /\ ScannerCanEnd(loc, outcome)
            /\ IF ~outcome.exitOk
               THEN /\ req' = [req EXCEPT ![r] =
                         Caught(ScanRejects(kind, sid, "scanner failed"),
                                "scanner-exit")]
                    /\ UNCHANGED <<rep, folder>>
               ELSE IF ~ReportFileExists(files, loc)
               THEN /\ req' = [req EXCEPT ![r] =
                         Caught(ScanRejects(kind, sid, "Report JSON not generated"),
                                "report-missing")]
                    /\ UNCHANGED <<rep, folder>>
               ELSE LET reportData == files[loc]
                        next ==
                          IF kind = "scan"
                          THEN Respond(kind, sid, 200, "report", reportData,
                                       NoSummary, <<>>)
                          ELSE IF Rejected(reportData)
                          THEN Respond(kind, sid, 400, "Rejected file",
                                       reportData, NoSummary, <<>>)
                          ELSE SummarizeBegin(kind, sid, loc, reportData)
                    IN /\ rep' = RenameReport(files, loc, sid)
                       /\ req' = [req EXCEPT ![r] = next]
                       /\ folder' = MkdirFor(next)
    /\ UNCHANGED <<upFile, summary, chat, started>>

\* gate.py never exits.  execFile is called with the option cwd alone: no
\* timeout and no kill signal, so its callback is never called and the promise
\* of scan stays pending.
ScannerHangs(r) ==
    /\ req[r].pc = "scan_wait"
    /\ req' = [req EXCEPT ![r].pc = "scan_hung"]
    /\ UNCHANGED <<fsVars, started>>

\* ------------------------------------------------------------ intake
UploadInputs == {"pdf", "notpdf", "nofile"}

\* An identifier of generateSessionId: one no request has used.
Fresh(sid) ==
    /\ ~folder[sid]
    /\ \A r \in Slots : req[r].sid # sid

\* POST /upload: generateSessionId, MulterLocal.single("file"), then
\* UploadService.upload up to the await in scan.
UploadStart(r) ==
    /\ Free(r)
    /\ \E sid \in ValidIds, input \in UploadInputs :
         /\ Fresh(sid)
         /\ IF input = "pdf"
            THEN /\ folder' = [folder EXCEPT ![sid] = TRUE]
                 /\ upFile' = [upFile EXCEPT ![sid] = TRUE]
                 /\ req' = [req EXCEPT ![r] = ScanBegin("upload", sid, sid)]
            ELSE /\ req' = [req EXCEPT ![r] =
                      IF input = "notpdf"
                      THEN RespondError("upload", sid, 400, "Invalid file type")
                      ELSE RespondError("upload", sid, 400,
                                        "Upload failed: missing sessionId or file")]
                 /\ UNCHANGED <<folder, upFile>>
    /\ started' = started + 1
    /\ UNCHANGED <<rep, summary, chat>>

\* ------------------------------------------------------------ questions
\* UploadService.askQuestion and AiService.askQuestion up to the await.
AskBegin(sid, q) ==
    IF sid = NoId \/ q = NoQuestion
    THEN RespondError("ask", sid, 400, "Missing sessionId or question")
    ELSE IF ~folder[sid]
    THEN RespondError("ask", sid, 400, "Session Folder Not Found")
    ELSE Waiting("ask_wait", "ask", sid, NoPath, q,
                 Append(LoadMessages(chat[sid]), UserTurn(q)), NoReport)

\* POST /upload/ask/:sessionId {question}
AskStart(r) ==
    /\ Free(r)
    /\ \E sid \in Ids \cup {NoId}, q \in Questions \cup {NoQuestion} :
         req' = [req EXCEPT ![r] = AskBegin(sid, q)]
    /\ started' = started + 1
    /\ UNCHANGED fsVars

\* The catch block of askQuestion.
AskError(sid, failure) ==
    IF failure = "rejected"
    THEN RespondError("ask", sid, UpstreamStatus, "detail")
    ELSE RespondError("ask", sid, 503, "AI service unavailable")

\* askQuestion putting the assistant turn in the place of the pending user
\* turn.
AnsweredInPlace(messages, aiData) ==
    [messages EXCEPT ![Len(messages)] =
        AssistantTurn(AnswerOf(aiData), SourcesOf(aiData))]

\* The log askQuestion writes and returns after a 2xx answer.
Answered(messages, aiData) ==
    Append(messages, AssistantTurn(AnswerOf(aiData), SourcesOf(aiData)))

\* askQuestion with a write of the log in its catch block: the pending user
\* turn is persisted when the call fails.
AskReturnPersistsPending(r) ==
    /\ req[r].pc = "ask_wait"
    /\ LET sid == req[r].sid
       IN \/ \E aiData \in AiReplies :
               LET messages == Answered(req[r].messages, aiData)
               IN /\ chat' = [chat EXCEPT ![sid] = ChatFile(messages)]
                  /\ req' = [req EXCEPT ![r] =
                       Respond("ask", sid, 200, "messages", NoReport,
                               NoSummary, messages)]
          \/ \E f \in HttpFailures :
               /\ req' = [req EXCEPT ![r] = Caught(AskError(sid, f), f)]
               /\ chat' = [chat EXCEPT ![sid] = ChatFile(req[r].messages)]
    /\ UNCHANGED <<folder, upFile, rep, summary, started>>

\* askQuestion from its await on: the answer of the question service.
AskReturn(r) ==
    /\ req[r].pc = "ask_wait"
    /\ LET sid == req[r].sid
       IN \/ \E aiData \in AiReplies :
               LET messages == Answered(req[r].messages, aiData)
               IN /\ chat' = [chat EXCEPT ![sid] = ChatFile(messages)]
                  /\ req' = [req EXCEPT ![r] =
                       Respond("ask", sid, 200, "messages", NoReport,
                               NoSummary, messages)]
          \/ \E f \in HttpFailures :
               /\ req' = [req EXCEPT ![r] = Caught(AskError(sid, f), f)]
               /\ UNCHANGED chat
    /\ UNCHANGED <<folder, upFile, rep, summary, started>>

\* ------------------------------------------------------------------- spec
Next ==
    \E r \in Slots :
        \/ UploadStart(r)
        \/ ScanFileStart(r)
        \/ ScanCallback(r)
        \/ ScannerHangs(r)
        \/ SummarizeStart(r)
        \/ SummarizeReturn(r)
        \/ AskStart(r)
        \/ AskReturn(r)

Spec == Init /\ [][Next]_vars

\* ----------------------------------------------------------- observations
\* The turns on disk for a session.
PersistedLog(file) == IF file.exists THEN file.text.items ELSE <<>>

IsPrefix(a, b) ==
    /\ Len(a) <= Len(b)
    /\ \A i \in 1..Len(a) : a[i] = b[i]

\* A step in which slot r takes a new request.
Starts(r) == ~Serving(r) /\ started' = started + 1 /\ req'[r] # req[r]
\* A step in which the request of slot r invokes AiService.summarize on an
\* existing file and summarize sends it to the summarization service.
InvokesSummarize(r) == req[r].pc # "sum_wait" /\ req'[r].pc = "sum_wait"
\* A step in which the summarize call of slot r ends in an error.
SummarizeFails(r) ==
    req[r].pc = "sum_wait" /\ req'[r].pc = "done" /\ req'[r].status # 200
\* A step in which the scan call of slot r ends: the callback of execFile ran.
ScanEnds(r) ==
    req[r].pc = "scan_wait" /\ req'[r].pc \notin {"scan_wait", "scan_hung"}
\* A step in which the ask of slot r ends.
AskSucceeds(r) ==
    req[r].pc = "ask_wait" /\ req'[r].pc = "done" /\ req'[r].status = 200
AskFails(r) ==
    req[r].pc = "ask_wait" /\ req'[r].pc = "done" /\ req'[r].status # 200

\* C1: a session whose scan report has risk level 3 never has summarize
\* invoked for it and never holds a summary artifact.
C1_RejectedNeverSummarized ==
    [][ /\ \A r \in Slots :
             InvokesSummarize(r) => rep'[req'[r].sid] # Report(MaxRisk)
        /\ \A id \in Ids :
             rep'[id] = Report(MaxRisk) => summary'[id] = NoSummary ]_vars

\* C2: scan and summarize are never in flight together for one session, and a
\* summary artifact exists only in a session that has a scan report.
C2_ScanBeforeSummarize ==
    /\ \A a, b \in Slots :
         ~(/\ req[a].pc = "scan_wait"
           /\ req[b].pc = "sum_wait"
           /\ req[a].sid = req[b].sid)
    /\ \A r \in Slots :
         req[r].pc = "sum_wait" => rep[req[r].sid].exists
    /\ \A id \in Ids : summary[id] # NoSummary => rep[id].exists

\* C3: the persisted conversation log only grows: the log before a step is a
\* prefix of the log after it.
C3_LogAppendOnly ==
    [][ \A id \in Ids :
          IsPrefix(PersistedLog(chat[id]), PersistedLog(chat'[id])) ]_vars

\* C4: when two asks on one session have both succeeded, the log of one
\* extends the log of the other by its two turns, and the persisted log holds
\* both (no lost update).
C4_NoLostUpdate ==
    \A a, b \in Slots :
        (/\ a # b
         /\ req[a].pc = "done" /\ req[a].kind = "ask" /\ req[a].status = 200
         /\ req[b].pc = "done" /\ req[b].kind = "ask" /\ req[b].status = 200
         /\ req[a].sid = req[b].sid
         /\ Len(req[a].messages) <= Len(req[b].messages))
        => /\ IsPrefix(req[a].messages, req[b].messages)
           /\ Len(req[b].messages) >= Len(req[a].messages) + 2
           /\ IsPrefix(req[b].messages, PersistedLog(chat[req[b].sid]))

\* C5: an ask on an identifier with no storage root is answered with the
\* not-found status 404, without a call to the question service, and changes
\* nothing on disk.
C5_AskUnknownSessionNotFound ==
    [][ \A r \in Slots :
          (/\ Starts(r)
           /\ req'[r].kind = "ask"
           /\ req'[r].sid \in Ids
           /\ ~folder[req'[r].sid]
           /\ req'[r].message # "Missing sessionId or question")
          => /\ req'[r].pc = "done"
             /\ req'[r].status = 404
             /\ UNCHANGED fsVars ]_vars

\* C6: a summarize call that fails leaves the summary artifact and the
\* uploaded file as they were, and a timeout is answered 504.
C6_FailedSummarizeWritesNothing ==
    [][ \A r \in Slots :
          SummarizeFails(r)
          => /\ summary' = summary
             /\ upFile' = upFile
             /\ req'[r].status \in {504, 503, UpstreamStatus}
             /\ (req'[r].message = "AI service took too long to respond"
                   <=> req'[r].status = 504) ]_vars

\* C7: the outcome of an intake is decided by the risk level of its scan
\* report alone: level 3 is answered 400 "Rejected file" with the report only
\* and writes no summary; levels 0..2 go on to summarize, and when that
\* succeeds the answer is 200 with the report and the summary, and the
\* summary artifact is under the session root.
C7_IntakeDecidedByRisk ==
    [][ \A r \in Slots :
          LET sid == req[r].sid
              now == req'[r]
          IN /\ (/\ req[r].kind = "upload"
                 /\ ScanEnds(r)
                 /\ now.status # 500)
                => /\ now.report.exists
                   /\ now.report = rep'[sid]
                   /\ now.report.risk_level \in RiskLevels
                   /\ now.report.risk_level = MaxRisk
                        => /\ now.pc = "done"
                           /\ now.status = 400
                           /\ now.message = "Rejected file"
                           /\ now.summary = NoSummary
                           /\ summary' = summary
                   /\ now.report.risk_level \in 0..(MaxRisk - 1)
                        => now.pc = "sum_wait"
             /\ (/\ req[r].kind = "upload"
                 /\ req[r].pc = "sum_wait"
                 /\ now.status = 200)
                => /\ now.report = req[r].report
                   /\ now.report.exists
                   /\ now.report.risk_level \in 0..(MaxRisk - 1)
                   /\ now.summary = SummaryText
                   /\ summary'[sid] = SummaryText ]_vars

\* An intake whose scan gave risk level 1 was answered 200 with report and
\* summary, and the summary artifact is under its session root.
C7_Witness ==
    \E r \in Slots :
        /\ req[r].pc = "done" /\ req[r].kind = "upload" /\ req[r].status = 200
        /\ req[r].report = Report(1)
        /\ req[r].summary = SummaryText
        /\ summary[req[r].sid] = SummaryText

\* C8: an ask starts from the persisted log L plus the user turn of the
\* question; when it succeeds it persists and returns that log plus one
\* assistant turn holding the answer and the citations of the service:
\* L, user, assistant.
C8_AskAppendsTwoTurns ==
    [][ \A r \in Slots :
          /\ (~Serving(r) /\ req'[r].pc = "ask_wait")
             => req'[r].messages =
                  PersistedLog(chat[req'[r].sid])
                     \o <<[role |-> "user", content |-> req'[r].q]>>
          /\ AskSucceeds(r)
             => /\ \E aiData \in AiReplies :
                     req'[r].messages =
                       req[r].messages
                         \o <<[role |-> "assistant",
                               content |-> aiData.answer,
                               sources |-> IF aiData.sources = Undefined
                                           THEN <<>> ELSE aiData.sources]>>
                /\ chat'[req[r].sid].exists
                /\ PersistedLog(chat'[req[r].sid]) = req'[r].messages ]_vars

\* A second ask on a session succeeded: it returned and persisted four turns.
C8_Witness ==
    \E r \in Slots :
        /\ req[r].pc = "done" /\ req[r].kind = "ask" /\ req[r].status = 200
        /\ Len(req[r].messages) = 4
        /\ req[r].messages[3].role = "user"
        /\ req[r].messages[4].role = "assistant"
        /\ PersistedLog(chat[req[r].sid]) = req[r].messages

\* The answers of an ask whose call to the question service failed.
AskFailureStatus == {503, UpstreamStatus}

\* C9 as stated: while an ask waits for the question service, and after the
\* call failed, the persisted log ends with the unanswered user turn.
C9_UserTurnPersistedFirst ==
    \A r \in Slots :
        (\/ req[r].pc = "ask_wait"
         \/ /\ req[r].pc = "done" /\ req[r].kind = "ask"
            /\ req[r].status \in AskFailureStatus)
        => LET log == PersistedLog(chat[req[r].sid])
           IN /\ Len(log) > 0
              /\ log[Len(log)].role = "user"

\* C9 as amended: the user turn is only in the in-memory log; an ask writes
\* nothing before the call to the question service, and nothing when the call
\* fails.
C9_FailedAskWritesNothing ==
    [][ \A r \in Slots :
          /\ (~Serving(r) /\ req'[r].pc = "ask_wait")
             => /\ chat' = chat
                /\ req'[r].messages[Len(req'[r].messages)].role = "user"
          /\ AskFails(r)
             => /\ chat' = chat
                /\ req'[r].status \in AskFailureStatus ]_vars

\* An ask failed at the question service and the session has no chat log.
C9_Witness ==
    \E r \in Slots :
        /\ req[r].pc = "done" /\ req[r].kind = "ask"
        /\ req[r].status \in AskFailureStatus
        /\ ~chat[req[r].sid].exists

\* C10: an identifier that fails the shape check is refused before any use of
\* the filesystem: its requests end with InvalidSessionId and no directory or
\* artifact exists on a path built from it.
C10_InvalidIdNeverTouchesDisk ==
    \A id \in InvalidIds :
        /\ ~folder[id]
        /\ ~rep[id].exists
        /\ summary[id] = NoSummary
        /\ ~chat[id].exists
        /\ \A r \in Slots :
             req[r].sid = id
                => req[r].pc = "done" /\ req[r].message = "InvalidSessionId"

\* C11: a session that holds a report, a summary or a chat log has its
\* storage root, and every step that writes such an artifact starts in a
\* state where that root exists.
C11_RootBeforeArtifact ==
    [][ \A id \in Ids :
          /\ (rep'[id] # rep[id] \/ summary'[id] # summary[id]
                \/ chat'[id] # chat[id])
             => folder[id]
          /\ (rep'[id].exists \/ summary'[id] # NoSummary \/ chat'[id].exists)
             => folder'[id] ]_vars

\* A session holds a report, a summary and a chat log under its root.
C11_Witness ==
    \E id \in Ids :
        /\ folder[id]
        /\ rep[id].exists
        /\ summary[id] = SummaryText
        /\ chat[id].exists

\* The status of a timeout in summarize (UpstreamTimeout); 503 is the status
\* of an unavailable service.
TimeoutStatus == 504

\* C12: a failed ask is answered by the kind of the failure, as in summarize:
\* a timeout 504, a refused connection 503, an error response of the service
\* with the status and message of that response.
C12_AskFailureKinds ==
    \A r \in Slots :
        (req[r].pc = "done" /\ req[r].kind = "ask")
        => /\ req[r].error = "timeout" => req[r].status = TimeoutStatus
           /\ req[r].error = "refused" => req[r].status = 503
           /\ req[r].error = "rejected"
                => req[r].status = UpstreamStatus /\ req[r].message = "detail"

\* C13: a scan whose scanner process fails, or ends with exit code 0 while no
\* report file is found, rejects with the error of that case; the request
\* ends there with an error answer: the scanner is not run again, no report
\* is placed under the session root and summarize is not invoked.
C13_ScanFailureIsFatal ==
    [][ \A r \in Slots :
          (ScanEnds(r) /\ ~req'[r].report.exists)
          => /\ req'[r].pc = "done"
             /\ req'[r].status = 500
             /\ req'[r].error \in {"scanner-exit", "report-missing"}
             /\ req'[r].error = "scanner-exit"
                  <=> req'[r].message = "scanner failed"
             /\ req'[r].error = "report-missing"
                  <=> req'[r].message = "Report JSON not generated"
             /\ req'[r].error = "report-missing"
                  => ~(req[r].loc \in FileLocs /\ rep'[req[r].loc].exists)
             /\ UNCHANGED fsVars ]_vars

\* An intake ended with the error of a missing report: its session has
\* neither a report nor a summary.
C13_Witness ==
    \E r \in Slots :
        /\ req[r].pc = "done" /\ req[r].kind = "upload"
        /\ req[r].status = 500
        /\ req[r].error = "report-missing"
        /\ ~rep[req[r].sid].exists
        /\ summary[req[r].sid] = NoSummary

\* C14: rejected is terminal: once the scan report of a session has risk
\* level 3, no step changes the report, the summary or the conversation log
\* of that session.
C14_RejectedIsTerminal ==
    [][ \A id \in Ids :
          rep[id] = Report(MaxRisk)
          => /\ rep'[id] = rep[id]
             /\ summary'[id] = summary[id]
             /\ chat'[id] = chat[id] ]_vars

\* C15: the scan report of a session is produced once and its summary at most
\* once: a report or a summary under the session root is never rewritten or
\* replaced by a later step.
C15_ArtifactsWrittenOnce ==
    [][ \A id \in Ids :
          /\ rep[id].exists => rep'[id] = rep[id]
          /\ summary[id] # NoSummary => summary'[id] = summary[id] ]_vars

\* The session a step of slot r works for.
ActorSid(r) == IF Serving(r) THEN req[r].sid ELSE req'[r].sid
\* What the storage holds for an identifier.
Artifacts(f, u, rp, sm, ch, id) ==
    <<f[id], IF id \in FileLocs THEN u[id] ELSE FALSE, rp[id], sm[id], ch[id]>>

\* C16: an operation on one session leaves every other session unchanged:
\* whatever changes under the storage root of an identifier is changed by a
\* step of a request for that identifier.
C16_OtherSessionsUnchanged ==
    [][ \A id \in Ids :
          Artifacts(folder', upFile', rep', summary', chat', id)
            # Artifacts(folder, upFile, rep, summary, chat, id)
          => \E r \in Slots : req'[r] # req[r] /\ ActorSid(r) = id ]_vars

\* C17: the log an ask persists, loaded again as the next ask loads it, is
\* the list of turns that ask held and returned: the same turns in the same
\* order, each with its role, content and citations.
C17_LogRoundTrip ==
    [][ \A r \in Slots :
          AskSucceeds(r)
          => /\ chat'[req[r].sid].exists
             /\ LoadMessages(chat'[req[r].sid]) = req'[r].messages ]_vars

\* An ask answered with citations after an earlier ask of the session: the
\* log it loaded, its own two turns, and all four read back from the file.
C17_Witness ==
    \E r \in Slots :
        /\ req[r].pc = "done" /\ req[r].kind = "ask" /\ req[r].status = 200
        /\ Len(req[r].messages) = 4
        /\ req[r].messages[4].sources = <<Cite>>
        /\ LoadMessages(chat[req[r].sid]) = req[r].messages

\* The roles of a log alternate, beginning with the user.
Alternates(log) ==
    \A i \in 1..Len(log) :
        log[i].role = IF i % 2 = 1 THEN "user" ELSE "assistant"

\* C19: the persisted log of every session has even length and its roles
\* alternate user, assistant, user, assistant: no unanswered user turn is on
\* disk, however successful and failed asks interleave.
C19_LogAlternates ==
    \A id \in Ids :
        LET log == PersistedLog(chat[id])
        IN Len(log) % 2 = 0 /\ Alternates(log)

\* Two asks of one session were in flight together; one succeeded and one
\* failed, and the log holds the two turns of the one that succeeded.
C19_Witness ==
    \E a, b \in Slots :
        /\ req[a].pc = "done" /\ req[a].kind = "ask" /\ req[a].status = 200
        /\ req[b].pc = "done" /\ req[b].kind = "ask" /\ req[b].status # 200
        /\ req[b].error # "none"
        /\ req[a].sid = req[b].sid
        /\ Len(PersistedLog(chat[req[a].sid])) = 2

\* C18: every scan call resolves or rejects and every intake request is
\* answered, also when the scanner process never exits: whatever a request in
\* flight waits for, a step that ends the wait is possible.
C18_EveryWaitCanEnd ==
    \A r \in Slots :
        Serving(r)
        => ENABLED (ScanCallback(r) \/ SummarizeReturn(r) \/ AskReturn(r))

====
